---- MODULE Spec2Model ----
EXTENDS Integers, Sequences, FiniteSets, TLC

(***************************************************************************)
(* MoneroConnectionManager: a registry of prioritized RPC connections, the *)
(* current connection, listeners, and the asynchronous check cycles.       *)
(*                                                                         *)
(* Connection objects are JavaScript references: every object has an id    *)
(* (its index in heap), _connections is a sequence of ids and              *)
(* _currentConnection is an id, or NoConn for undefined.                   *)
(***************************************************************************)

VARIABLES
  heap,         \* the MoneroRpcConnection objects the manager holds, by id
  connections,  \* this._connections
  current,      \* this._currentConnection
  listeners,    \* this._listeners
  autoSwitch,   \* this._autoSwitch
  tasks,        \* the asynchronous calls in flight, one record per caller
  stragglers,   \* probes still in flight that no call awaits any more
  periodic,     \* this._checkLooper, the loopers and the calls that start them
  wallet,       \* a MoneroWalletRpc and the wallet RPC server behind it
  last          \* what the most recent step was and how it ended

vars == <<heap, connections, current, listeners, autoSwitch, tasks, stragglers,
          periodic, wallet, last>>

----------------------------------------------------------------------------
\* Bounds of the model

MaxConns == 2       \* connections the clients get registered
MaxListeners == 1   \* listeners the clients add
MaxTasks == 1       \* asynchronous calls in flight at once
MaxRank == 3        \* connections of a registry whose ranking is computed

----------------------------------------------------------------------------
\* Values

NoConn == 0         \* undefined, where a connection is expected

T == "true"
F == "false"
U == "undefined"

Uris == {"a", "b", "c", "d"}

\* String.prototype.localeCompare on the URIs of the model
LocaleCompare(u1, u2) ==
  LET ord(u) == CASE u = "a" -> 1 [] u = "b" -> 2 [] u = "c" -> 3 [] OTHER -> 4
  IN  IF ord(u1) < ord(u2) THEN -1 ELSE IF ord(u1) > ord(u2) THEN 1 ELSE 0

\* new MoneroRpcConnection(uri, username, password) with a priority set
RpcConnection(uri, username, password, priority) ==
  [uri |-> uri, username |-> username, password |-> password,
   priority |-> priority, isOnline |-> U, isAuthenticated |-> U]

\* new MoneroRpcConnection(uri)
NewRpcConnection(uri) == RpcConnection(uri, "", "", 0)

\* MoneroRpcConnection.setCredentials
SetCredentials(h, id, username, password) ==
  [h EXCEPT ![id].username = username, ![id].password = password]

\* An argument that is a connection: the reference and the object behind it.
\* A reference the manager has never seen is the next free id.
Ref(h, id) == [id |-> id, obj |-> h[id]]
Fresh(h, obj) == [id |-> Len(h) + 1, obj |-> obj]

\* The heap once the manager keeps a reference to c
Store(h, c) == IF c.id <= Len(h) THEN h ELSE Append(h, c.obj)

Min(S) == CHOOSE x \in S : \A y \in S : x <= y

Range(s) == {s[i] : i \in 1..Len(s)}

----------------------------------------------------------------------------
\* The synchronous operations, as functions of the manager's fields

\* getConnectionByUri
GetConnectionByUri(h, cs, uri) ==
  LET idx == {i \in 1..Len(cs) : h[cs[i]].uri = uri}
  IN  IF idx = {} THEN NoConn ELSE cs[Min(idx)]

\* addConnection without the loop of lines 47-49
AddConnectionOp_NoUriCheck(h, cs, c) ==
  [heap |-> Store(h, c), connections |-> Append(cs, c.id), threw |-> "none"]

\* addConnection
AddConnectionOp(h, cs, c) ==
  IF \E i \in 1..Len(cs) : h[cs[i]].uri = c.obj.uri
  THEN [heap |-> h, connections |-> cs, threw |-> "MoneroError"]
  ELSE [heap |-> Store(h, c), connections |-> Append(cs, c.id), threw |-> "none"]

\* removeConnection. Line 63 reads the identifier `connections`, which is
\* bound nowhere (the field is this._connections): evaluating it throws a
\* ReferenceError before GenUtils.remove is called, so lines 64-65 never run.
RemoveConnectionOp(h, cs, cur, uri) ==
  IF GetConnectionByUri(h, cs, uri) = NoConn
  THEN [connections |-> cs, current |-> cur, threw |-> "MoneroError"]
  ELSE [connections |-> cs, current |-> cur, threw |-> "ReferenceError"]

\* setConnection whose line 192 makes the argument current
SetConnectionValue_ArgumentCurrent(h, cs, cur, arg) ==
  LET same ==
        \/ arg.kind = "conn" /\ cur = arg.c.id
        \/ arg.kind = "undefined" /\ cur = NoConn
      unchanged == [heap |-> h, connections |-> cs, current |-> cur,
                    threw |-> "none", notes |-> <<>>]
  IN
  IF same THEN unchanged
  ELSE IF arg.kind \in {"undefined", "falsy"}
  THEN [heap |-> h, connections |-> cs, current |-> NoConn,
        threw |-> "none", notes |-> <<NoConn>>]
  ELSE IF arg.kind # "conn"
  THEN [unchanged EXCEPT !.threw = "MoneroError"]
  ELSE
    LET c == arg.c
        prevConnection == GetConnectionByUri(h, cs, c.obj.uri)
    IN
    IF prevConnection = NoConn
    THEN [heap |-> Store(h, c), connections |-> Append(cs, c.id),
          current |-> c.id, threw |-> "none", notes |-> <<c.id>>]
    ELSE [heap |-> SetCredentials(Store(h, c), prevConnection,
                                  c.obj.username, c.obj.password),
          connections |-> cs, current |-> c.id,
          threw |-> "none", notes |-> <<c.id>>]

\* setConnection without the early return of line 168
SetConnectionValue_NoEarlyReturn(h, cs, cur, arg) ==
  LET unchanged == [heap |-> h, connections |-> cs, current |-> cur,
                    threw |-> "none", notes |-> <<>>]
  IN
  IF arg.kind \in {"undefined", "falsy"}
  THEN [heap |-> h, connections |-> cs, current |-> NoConn,
        threw |-> "none", notes |-> <<NoConn>>]
  ELSE IF arg.kind # "conn"
  THEN [unchanged EXCEPT !.threw = "MoneroError"]
  ELSE
    LET c == arg.c
        prevConnection == GetConnectionByUri(h, cs, c.obj.uri)
    IN
    IF prevConnection = NoConn
    THEN [heap |-> Store(h, c), connections |-> Append(cs, c.id),
          current |-> c.id, threw |-> "none", notes |-> <<c.id>>]
    ELSE [heap |-> SetCredentials(h, prevConnection, c.obj.username, c.obj.password),
          connections |-> cs, current |-> prevConnection,
          threw |-> "none", notes |-> <<prevConnection>>]

\* setConnection, lines 166-197: the argument is not a string.
\* arg.kind: "conn" (a MoneroRpcConnection, arg.c), "undefined",
\* "falsy" (null, 0, false), "object" (any other truthy value).
\* notes: the arguments of the _onConnectionChanged calls, in order.
SetConnectionValue(h, cs, cur, arg) ==
  LET same ==
        \/ arg.kind = "conn" /\ cur = arg.c.id
        \/ arg.kind = "undefined" /\ cur = NoConn
      unchanged == [heap |-> h, connections |-> cs, current |-> cur,
                    threw |-> "none", notes |-> <<>>]
  IN
  IF same THEN unchanged
  ELSE IF arg.kind \in {"undefined", "falsy"}
  THEN [heap |-> h, connections |-> cs, current |-> NoConn,
        threw |-> "none", notes |-> <<NoConn>>]
  ELSE IF arg.kind # "conn"
  THEN [unchanged EXCEPT !.threw = "MoneroError"]
  ELSE
    LET c == arg.c
        prevConnection == GetConnectionByUri(h, cs, c.obj.uri)
    IN
    IF prevConnection = NoConn
    THEN LET added == AddConnectionOp(h, cs, c)
         IN  IF added.threw # "none"
             THEN [unchanged EXCEPT !.threw = added.threw]
             ELSE [heap |-> added.heap, connections |-> added.connections,
                   current |-> c.id, threw |-> "none", notes |-> <<c.id>>]
    ELSE IF \/ prevConnection # cur
            \/ h[prevConnection].username # c.obj.username
            \/ c.obj.password # c.obj.password
    THEN [heap |-> SetCredentials(h, prevConnection, c.obj.username, c.obj.password),
          connections |-> cs, current |-> prevConnection,
          threw |-> "none", notes |-> <<prevConnection>>]
    ELSE unchanged

\* setConnection that makes a new connection of every string
SetConnectionOp_StringAlwaysNew(h, cs, cur, arg) ==
  IF arg.kind = "string"
  THEN SetConnectionValue(h, cs, cur,
         [kind |-> "conn", c |-> Fresh(h, NewRpcConnection(arg.uri))])
  ELSE SetConnectionValue(h, cs, cur, arg)

\* setConnection: a string is resolved to the registered connection with that
\* URI, or to a new connection, and setConnection is called again with it.
SetConnectionOp(h, cs, cur, arg) ==
  IF arg.kind = "string"
  THEN LET connection == GetConnectionByUri(h, cs, arg.uri)
       IN  SetConnectionValue(h, cs, cur,
             [kind |-> "conn",
              c |-> IF connection = NoConn
                    THEN Fresh(h, NewRpcConnection(arg.uri))
                    ELSE Ref(h, connection)])
  ELSE SetConnectionValue(h, cs, cur, arg)

----------------------------------------------------------------------------
\* The state after construction

Idle == [pc |-> "idle"]

MaxStarts == 2      \* startCheckingConnection calls in flight at once
MaxLoopers == 2     \* loopers the manager creates
MaxFirings == 2     \* firings of one looper

NoLooper == 0       \* undefined, where a looper is expected

StartIds == 1..MaxStarts

IdleStart == [pc |-> "idle"]

\* no looper, and no startCheckingConnection call in flight
NoPeriodic ==
  [checkLooper |-> NoLooper, loopers |-> <<>>, starts |-> [s \in StartIds |-> IdleStart]]

----------------------------------------------------------------------------
\* MoneroWalletRpc: this.addressCache, this.path, and the wallet RPC server
\* behind this.config.rpc (files: the wallet files it has; open: the wallet it
\* has open; subs: the number of subaddresses of each account of each wallet).
\* A wallet is named by a positive number, NoName is undefined or "".

MaxWallets == 2        \* wallet files
MaxAccount == 1        \* the highest account index
MaxSubaddresses == 2   \* subaddresses of one account

NoName == 0

WalletNames == 1..MaxWallets

Accounts == 0..MaxAccount

NoAddress == <<>>

\* the address the server gives subaddress i of account a of wallet w
Address(w, a, i) == <<w, a, i>>

\* {}
EmptyMap == [x \in {} |-> NoAddress]

\* m[k] = v
Put(m, k, v) == [x \in DOMAIN m \cup {k} |-> IF x = k THEN v ELSE m[x]]

NewServer == [open |-> NoName, files |-> {},
              subs |-> [w \in WalletNames |-> [a \in Accounts |-> 1]]]

\* new MoneroWalletRpc(config)
NoWallet == [addressCache |-> EmptyMap, path |-> NoName, server |-> NewServer]

\* what a call of the wallet did: the wallet after it, what it threw, what it
\* returned and the requests it sent
Returned(w, result, rpcs) ==
  [wallet |-> w, threw |-> "none", result |-> result, rpcs |-> rpcs]

Threw(w, error, rpcs) ==
  [wallet |-> w, threw |-> error, result |-> NoAddress, rpcs |-> rpcs]

\* openWallet(name, password); ok: the request reaches the server and the
\* password is that of the file
OpenWalletOp(w, name, password, ok) ==
  IF name = NoName THEN Threw(w, "MoneroError", 0)
  ELSE IF password = "" THEN Threw(w, "MoneroError", 0)
  ELSE IF ~(ok /\ name \in w.server.files) THEN Threw(w, "MoneroRpcError", 1)
  ELSE Returned([addressCache |-> EmptyMap, path |-> name,
                 server |-> [w.server EXCEPT !.open = name]], NoAddress, 1)

\* createWalletRandom(name, password, language)
CreateWalletRandomOp(w, name, password, ok) ==
  IF name = NoName THEN Threw(w, "MoneroError", 0)
  ELSE IF password = "" THEN Threw(w, "MoneroError", 0)
  ELSE IF ~(ok /\ name \notin w.server.files) THEN Threw(w, "MoneroRpcError", 1)
  ELSE Returned([addressCache |-> EmptyMap, path |-> name,
                 server |-> [w.server EXCEPT !.open = name, !.files = @ \cup {name}]],
                NoAddress, 1)

\* createWalletFromMnemonic(name, password, mnemonic, ...)
CreateWalletFromMnemonicOp(w, name, ok) ==
  IF ~(ok /\ name # NoName /\ name \notin w.server.files)
  THEN Threw(w, "MoneroRpcError", 1)
  ELSE Returned([w EXCEPT !.path = name,
                          !.server.open = name,
                          !.server.files = @ \cup {name}], NoAddress, 1)

\* stop()
StopOp(w, ok) ==
  LET w1 == [w EXCEPT !.addressCache = EmptyMap, !.path = NoName]
  IN  IF ~ok THEN Threw(w1, "MoneroRpcError", 1)
      ELSE Returned([w1 EXCEPT !.server.open = NoName], NoAddress, 1)

\* close(save)
CloseOp(w, save, ok) ==
  LET w1 == [w EXCEPT !.addressCache = EmptyMap, !.path = NoName]
  IN  IF ~(ok /\ w.server.open # NoName) THEN Threw(w1, "MoneroRpcError", 1)
      ELSE Returned([w1 EXCEPT !.server.open = NoName], NoAddress, 1)

\* the subaddress indices account a of the open wallet has
Indices(sv, a) == 0..(sv.subs[sv.open][a] - 1)

\* getSubaddresses(accountIdx, subaddressIndices, skipBalances), where {} is
\* an undefined subaddressIndices; ok1 and ok2: get_address and get_balance
\* reach the server
GetSubaddressesOp(w, accountIdx, subaddressIndices, skipBalances, ok1, ok2) ==
  IF ~ok1 \/ w.server.open = NoName THEN Threw(w, "MoneroRpcError", 1)
  ELSE LET wanted == IF subaddressIndices = {} THEN Indices(w.server, accountIdx)
                     ELSE subaddressIndices
           found == [i \in wanted |-> Address(w.server.open, accountIdx, i)]
           old == IF accountIdx \in DOMAIN w.addressCache
                  THEN w.addressCache[accountIdx] ELSE EmptyMap
           subaddressMap == [i \in DOMAIN old \cup wanted |->
                               IF i \in wanted THEN found[i] ELSE old[i]]
       IN  IF ~(wanted \subseteq Indices(w.server, accountIdx))
           THEN Threw(w, "MoneroRpcError", 1)
           ELSE IF ~skipBalances /\ ~ok2 THEN Threw(w, "MoneroRpcError", 2)
           ELSE Returned([w EXCEPT !.addressCache = Put(@, accountIdx, subaddressMap)],
                         found, IF skipBalances THEN 1 ELSE 2)

\* getAddress from line 201 on: the cache has a map for the account
GetAddressOfMap(w, accountIdx, subaddressIdx, ok) ==
  IF subaddressIdx \in DOMAIN w.addressCache[accountIdx]
  THEN Returned(w, w.addressCache[accountIdx][subaddressIdx], 0)
  ELSE LET r == GetSubaddressesOp(w, accountIdx, {}, TRUE, ok, TRUE)
       IN  IF r.threw # "none" THEN r
           ELSE Returned(r.wallet,
                         IF subaddressIdx \in DOMAIN r.wallet.addressCache[accountIdx]
                         THEN r.wallet.addressCache[accountIdx][subaddressIdx]
                         ELSE NoAddress, 1)

\* getAddress(accountIdx, subaddressIdx)
GetAddressOp(w, accountIdx, subaddressIdx, ok1, ok2) ==
  IF accountIdx \notin DOMAIN w.addressCache
  THEN LET r1 == GetSubaddressesOp(w, accountIdx, {}, TRUE, ok1, TRUE)
       IN  IF r1.threw # "none" THEN r1
           ELSE LET r2 == GetAddressOfMap(r1.wallet, accountIdx, subaddressIdx, ok2)
                IN  [r2 EXCEPT !.rpcs = @ + 1]
  ELSE GetAddressOfMap(w, accountIdx, subaddressIdx, ok1)

\* createSubaddress(accountIdx, label)
CreateSubaddressOp(w, accountIdx, ok) ==
  IF ~ok \/ w.server.open = NoName THEN Threw(w, "MoneroRpcError", 1)
  ELSE LET i == w.server.subs[w.server.open][accountIdx]
       IN  Returned([w EXCEPT !.server.subs[w.server.open][accountIdx] = i + 1],
                    Address(w.server.open, accountIdx, i), 1)

\* a call of the wallet, awaited
WalletCall(op, args, r) ==
  /\ wallet' = r.wallet
  /\ last' = [op |-> op, args |-> args, threw |-> r.threw, result |-> r.result,
              rpcs |-> r.rpcs]
  /\ UNCHANGED <<heap, connections, current, listeners, autoSwitch, tasks, stragglers,
                 periodic>>

WalletPasswords == {"", "p"}

OpenWallet(name, password, ok) ==
  WalletCall("openWallet", <<name>>, OpenWalletOp(wallet, name, password, ok))

CreateWalletRandom(name, password, ok) ==
  WalletCall("createWalletRandom", <<name>>,
             CreateWalletRandomOp(wallet, name, password, ok))

CreateWalletFromMnemonic(name, ok) ==
  WalletCall("createWalletFromMnemonic", <<name>>,
             CreateWalletFromMnemonicOp(wallet, name, ok))

Stop(ok) == WalletCall("stop", <<>>, StopOp(wallet, ok))

Close(save, ok) == WalletCall("close", <<>>, CloseOp(wallet, save, ok))

GetSubaddresses(accountIdx, subaddressIndices, skipBalances, ok1, ok2) ==
  WalletCall("getSubaddresses", <<accountIdx>>,
             GetSubaddressesOp(wallet, accountIdx, subaddressIndices, skipBalances,
                               ok1, ok2))

GetAddress(accountIdx, subaddressIdx, ok1, ok2) ==
  WalletCall("getAddress", <<accountIdx, subaddressIdx>>,
             GetAddressOp(wallet, accountIdx, subaddressIdx, ok1, ok2))

CreateSubaddress(accountIdx, ok) ==
  /\ wallet.server.open # NoName
       => wallet.server.subs[wallet.server.open][accountIdx] < MaxSubaddresses
  /\ WalletCall("createSubaddress", <<accountIdx>>,
                CreateSubaddressOp(wallet, accountIdx, ok))

Init ==
  /\ heap = <<>>
  /\ connections = <<>>
  /\ current = NoConn
  /\ listeners = <<>>
  /\ autoSwitch = FALSE
  /\ tasks = [t \in 1..MaxTasks |-> Idle]
  /\ stragglers = {}
  /\ periodic = NoPeriodic
  /\ wallet = NoWallet
  /\ last = [op |-> "constructor"]

----------------------------------------------------------------------------
\* The synchronous calls of the public interface

ListenerIds == 1..MaxListeners

\* addListener
AddListener(l) ==
  /\ Len(listeners) < MaxListeners
  /\ listeners' = Append(listeners, l)
  /\ UNCHANGED <<heap, connections, current, autoSwitch, tasks, stragglers, periodic, wallet>>

\* GenUtils.remove: removes the first occurrence
RemoveFirst(s, x) ==
  LET idx == {i \in 1..Len(s) : s[i] = x}
  IN  IF idx = {} THEN s
      ELSE [i \in 1..(Len(s) - 1) |-> IF i < Min(idx) THEN s[i] ELSE s[i + 1]]

\* removeListener
RemoveListener(l) ==
  /\ listeners' = RemoveFirst(listeners, l)
  /\ UNCHANGED <<heap, connections, current, autoSwitch, tasks, stragglers, periodic, wallet>>

\* addConnection(connection)
AddConnection(c) ==
  LET r == AddConnectionOp(heap, connections, c)
  IN  /\ Len(r.connections) <= MaxConns
      /\ heap' = r.heap
      /\ connections' = r.connections
      /\ UNCHANGED <<current, listeners, autoSwitch, tasks, stragglers, periodic, wallet>>

\* removeConnection(uri)
RemoveConnection(uri) ==
  LET r == RemoveConnectionOp(heap, connections, current, uri)
  IN  /\ connections' = r.connections
      /\ current' = r.current
      /\ UNCHANGED <<heap, listeners, autoSwitch, tasks, stragglers, periodic, wallet>>

\* setConnection(uriOrConnection); _onConnectionChanged is called and its
\* promise dropped
SetConnection(arg) ==
  LET r == SetConnectionOp(heap, connections, current, arg)
  IN  /\ Len(r.connections) <= MaxConns
      /\ heap' = r.heap
      /\ connections' = r.connections
      /\ current' = r.current
      /\ UNCHANGED <<listeners, autoSwitch, tasks, stragglers, periodic, wallet>>

\* disconnect
Disconnect ==
  LET r == SetConnectionOp(heap, connections, current, [kind |-> "undefined"])
  IN  /\ heap' = r.heap
      /\ connections' = r.connections
      /\ current' = r.current
      /\ UNCHANGED <<listeners, autoSwitch, tasks, stragglers, periodic, wallet>>

\* setAutoSwitch
SetAutoSwitch(b) ==
  /\ autoSwitch' = b
  /\ tasks' = [t \in DOMAIN tasks |->
                IF tasks[t].pc = "idle" THEN tasks[t]
                ELSE [tasks[t] EXCEPT !.auto = @ /\ b]]
  /\ UNCHANGED <<heap, connections, current, listeners, stragglers, periodic, wallet>>

----------------------------------------------------------------------------
\* What `last` says of a synchronous call: the call, the error it threw and
\* the arguments of the _onConnectionChanged calls it made

LogAddListener == [op |-> "addListener", threw |-> "none", notes |-> <<>>]

LogRemoveListener(l) ==
  [op |-> "removeListener", notes |-> <<>>,
   threw |-> IF l \in Range(listeners) THEN "none" ELSE "MoneroError"]

LogAddConnection(c) ==
  [op |-> "addConnection", c |-> c, notes |-> <<>>,
   threw |-> AddConnectionOp(heap, connections, c).threw]

LogRemoveConnection(uri) ==
  [op |-> "removeConnection", uri |-> uri, notes |-> <<>>,
   threw |-> RemoveConnectionOp(heap, connections, current, uri).threw]

LogSetConnection(op, arg) ==
  LET r == SetConnectionOp(heap, connections, current, arg)
  IN  [op |-> op, kind |-> arg.kind, arg |-> arg, threw |-> r.threw,
       notes |-> r.notes]

\* a synchronous call between the steps of the asynchronous ones
LogCall == [op |-> "call"]

----------------------------------------------------------------------------
\* The registry under its synchronous interface alone

Usernames == {"u"}
Passwords == {"p", "q"}

\* the connection arguments a client passes: a reference the manager holds,
\* or a connection the client has just constructed
ConnArgs(uris, users, pws, prios) ==
  {Ref(heap, id) : id \in 1..Len(heap)} \cup
  {Fresh(heap, RpcConnection(u, n, p, pr)) :
     u \in uris, n \in users, p \in pws, pr \in prios}

RegistryUris == {"a", "b", "c"}
RegistryArgs == ConnArgs(RegistryUris, Usernames, Passwords, {0})

\* the arguments a client passes to setConnection
SetArgs(conns, uris) ==
  {[kind |-> "conn", c |-> c] : c \in conns} \cup
  {[kind |-> "string", uri |-> u] : u \in uris} \cup
  {[kind |-> k] : k \in {"undefined", "falsy", "object"}}

NextRegistry ==
  \/ \E l \in ListenerIds : AddListener(l) /\ last' = LogAddListener
  \/ \E l \in ListenerIds : RemoveListener(l) /\ last' = LogRemoveListener(l)
  \/ \E c \in RegistryArgs : AddConnection(c) /\ last' = LogAddConnection(c)
  \/ \E u \in RegistryUris : RemoveConnection(u) /\ last' = LogRemoveConnection(u)
  \/ \E a \in SetArgs(RegistryArgs, RegistryUris) :
        SetConnection(a) /\ last' = LogSetConnection("setConnection", a)
  \/ Disconnect /\ last' = LogSetConnection("disconnect", [kind |-> "undefined"])

SpecRegistry == Init /\ [][NextRegistry]_vars

----------------------------------------------------------------------------
\* The health check of a connection (MoneroRpcConnection.checkConnection):
\* one round trip that sets isOnline and isAuthenticated and reports whether
\* either changed, or fails with an error and leaves them alone.

CheckOutcomes == {"ok", "unauth", "down", "error"}

ApplyCheck(h, id, outcome) ==
  CASE outcome = "ok" -> [h EXCEPT ![id].isOnline = T, ![id].isAuthenticated = T]
    [] outcome = "unauth" -> [h EXCEPT ![id].isOnline = T, ![id].isAuthenticated = F]
    [] outcome = "down" -> [h EXCEPT ![id].isOnline = F, ![id].isAuthenticated = U]
    [] OTHER -> h

CheckChanged(h, id, outcome) == ApplyCheck(h, id, outcome)[id] # h[id]

\* line 129 without the test of isAuthenticated
Healthy_OnlineOnly(h, id) == h[id].isOnline = T

\* connection.isOnline() && connection.isAuthenticated() !== false
Healthy(h, id) == h[id].isOnline = T /\ h[id].isAuthenticated # F

----------------------------------------------------------------------------
\* _getConnectionsInAscendingPriority. A tier is a sequence of elements; an
\* element is a connection, or (line 344) an array of connections.

ConnElem(id) == [tag |-> "conn", id |-> id, conns |-> <<>>]
ArrayElem(tier) == [tag |-> "array", id |-> NoConn, conns |-> tier]

RECURSIVE SortAscending(_)
SortAscending(S) ==
  IF S = {} THEN <<>> ELSE <<Min(S)>> \o SortAscending(S \ {Min(S)})

\* _getConnectionsInAscendingPriority without the sort of line 341: the tiers
\* in the order in which their priorities first occur in _connections
GetConnectionsInAscendingPriority_Unsorted(h, cs) ==
  LET firsts == {i \in 1..Len(cs) :
                   \A j \in 1..(i - 1) : h[cs[j]].priority # h[cs[i]].priority}
      order == SortAscending(firsts)
      tier(p) == [i \in 1..Len(SelectSeq(cs, LAMBDA id : h[id].priority = p)) |->
                    ConnElem(SelectSeq(cs, LAMBDA id : h[id].priority = p)[i])]
      list == [k \in 1..Len(order) |-> tier(h[cs[order[k]]].priority)]
  IN  IF \E i \in 1..Len(cs) : h[cs[i]].priority = 0
      THEN Append(Tail(list), <<ArrayElem(Head(list))>>)
      ELSE list

GetConnectionsInAscendingPriority(h, cs) ==
  LET keys == {h[cs[i]].priority : i \in 1..Len(cs)}
      ascendingPriorities == SortAscending(keys)
      tier(p) == [i \in 1..Len(SelectSeq(cs, LAMBDA id : h[id].priority = p)) |->
                    ConnElem(SelectSeq(cs, LAMBDA id : h[id].priority = p)[i])]
      ascendingPrioritiesList ==
        [k \in 1..Len(ascendingPriorities) |-> tier(ascendingPriorities[k])]
  IN  IF 0 \in keys
      THEN \* splice(0, 1) returns the array of the removed elements, and that
           \* array is what is pushed: a tier whose one element is a tier
           Append(Tail(ascendingPrioritiesList),
                  <<ArrayElem(Head(ascendingPrioritiesList))>>)
      ELSE ascendingPrioritiesList

----------------------------------------------------------------------------
\* The asynchronous calls. A task is one call in flight:
\*   pc       where it is suspended: "check" (line 206, the health check),
\*            "notify" (line 206, the listeners), "probe" (line 139 or 220)
\*   kind     "checkConnection", "getBest" or "checkConnections"
\*   conn     the local `connection` of checkConnection
\*   pending  the connections whose check the await waits for
\* and, to state the claims: wasOnline, wentOffline, auto (auto-switch was on
\* during the whole call), heard (the dispatch reached a listener),
\* bestCalls, rejected (the probes of the call that were rejected).

TaskIds == 1..MaxTasks

NewTask(kind, conn, h, auto) ==
  [pc |-> "check", kind |-> kind, conn |-> conn, auto |-> auto,
   wasOnline |-> (conn # NoConn /\ h[conn].isOnline = T), wentOffline |-> FALSE,
   heard |-> FALSE, excluded |-> {}, tiers |-> <<>>, k |-> 0, pending |-> {},
   rejected |-> {}, bestCalls |-> 0]

NoEnd == [kind |-> "none"]

\* what a finished call leaves in `last`
EndOf(tk, threw, result, setCalls) ==
  [kind |-> tk.kind, threw |-> threw, result |-> result, conn |-> tk.conn,
   auto |-> tk.auto, wentOffline |-> tk.wentOffline, excluded |-> tk.excluded,
   rejected |-> tk.rejected, bestCalls |-> tk.bestCalls, setCalls |-> setCalls]

\* lines 122-139 for the tiers from k on: the probes of the first tier that
\* has any are launched. An excluded connection is skipped; the check of an
\* element that is no connection throws a TypeError, which rejects its promise;
\* Promise.any of rejected promises only (or of none) rejects with an
\* AggregateError, which line 142 swallows.
\* lines 117-139 with the probes of every tier from k on launched at once
Launch_AllTiers(tiers, k, excluded) ==
  [k |-> k,
   pending |-> UNION {{tiers[m][i].id : i \in {j \in 1..Len(tiers[m]) :
                          /\ tiers[m][j].tag = "conn"
                          /\ tiers[m][j].id \notin excluded}} : m \in k..Len(tiers)}]

\* lines 122-139 without the test of line 125
RECURSIVE Launch_IgnoresExcluded(_, _, _)
Launch_IgnoresExcluded(tiers, k, excluded) ==
  IF k > Len(tiers) THEN [k |-> k, pending |-> {}]
  ELSE LET started == {tiers[k][i].id : i \in {j \in 1..Len(tiers[k]) :
                          tiers[k][j].tag = "conn"}}
       IN  IF started = {} THEN Launch_IgnoresExcluded(tiers, k + 1, excluded)
           ELSE [k |-> k, pending |-> started]

RECURSIVE Launch(_, _, _)
Launch(tiers, k, excluded) ==
  IF k > Len(tiers) THEN [k |-> k, pending |-> {}]
  ELSE LET started == {tiers[k][i].id : i \in {j \in 1..Len(tiers[k]) :
                          /\ tiers[k][j].tag = "conn"
                          /\ tiers[k][j].id \notin excluded}}
       IN  IF started = {} THEN Launch(tiers, k + 1, excluded)
           ELSE [k |-> k, pending |-> started]

\* Every continuation below yields the manager's fields, the task and what
\* the step did: [heap, connections, current, task, stragglers, end, notes].

Step(h, cs, cur, tk, st, end, notes) ==
  [heap |-> h, connections |-> cs, current |-> cur, task |-> tk,
   stragglers |-> st, end |-> end, notes |-> notes]

\* getBestAvailableConnection has returned `result` (lines 140, 145)
BestReturn(h, cs, cur, tk, st, result) ==
  IF tk.kind = "getBest"
  THEN Step(h, cs, cur, Idle, st, EndOf(tk, "none", result, 0), <<>>)
  ELSE \* checkConnection, line 209
    IF result # NoConn
    THEN LET s == SetConnectionOp(h, cs, cur, [kind |-> "conn", c |-> Ref(h, result)])
         IN  Step(s.heap, s.connections, s.current, Idle, st,
                  EndOf(tk, s.threw, result, 1), s.notes)
    ELSE Step(h, cs, cur, Idle, st, EndOf(tk, "none", result, 0), <<>>)

\* getBestAvailableConnection whose line 142 rethrows the AggregateError too
BestFrom_AggregateErrorThrown(h, cs, cur, tk, st, k) ==
  LET l == Launch(tk.tiers, k, tk.excluded)
  IN  IF l.pending = {}
      THEN Step(h, cs, cur, Idle, st, EndOf(tk, "MoneroError", NoConn, 0), <<>>)
      ELSE Step(h, cs, cur,
                [tk EXCEPT !.pc = "probe", !.k = l.k, !.pending = l.pending],
                st, NoEnd, <<>>)

\* getBestAvailableConnection from tier k on
BestFrom(h, cs, cur, tk, st, k) ==
  LET l == Launch(tk.tiers, k, tk.excluded)
  IN  IF l.pending = {}
      THEN BestReturn(h, cs, cur, tk, st, NoConn)
      ELSE Step(h, cs, cur,
                [tk EXCEPT !.pc = "probe", !.k = l.k, !.pending = l.pending],
                st, NoEnd, <<>>)

\* getBestAvailableConnection(excludedConnections) is called
BestBegin(h, cs, cur, tk, st, excluded) ==
  BestFrom(h, cs, cur,
           [tk EXCEPT !.excluded = excluded, !.bestCalls = @ + 1,
                      !.tiers = GetConnectionsInAscendingPriority(h, cs)],
           st, 1)

\* checkConnection whose line 207 does not read this._autoSwitch
Line207_IgnoresAutoSwitch(h, cs, cur, auto, tk, st) ==
  LET tk1 == [tk EXCEPT !.wentOffline = @ /\ h[tk.conn].isOnline = F]
  IN  IF tk.conn = NoConn \/ h[tk.conn].isOnline # T \/ h[tk.conn].isAuthenticated = F
      THEN BestBegin(h, cs, cur, tk1, st, {tk.conn})
      ELSE Step(h, cs, cur, Idle, st, EndOf(tk1, "none", NoConn, 0), <<>>)

\* checkConnection from line 207 on (wentOffline: the connection the check
\* found offline is still offline when line 207 reads it)
Line207(h, cs, cur, auto, tk, st) ==
  LET tk1 == [tk EXCEPT !.wentOffline = @ /\ h[tk.conn].isOnline = F]
  IN  IF auto /\ (tk.conn = NoConn \/ h[tk.conn].isOnline # T
                    \/ h[tk.conn].isAuthenticated = F)
      THEN BestBegin(h, cs, cur, tk1, st, {tk.conn})
      ELSE Step(h, cs, cur, Idle, st, EndOf(tk1, "none", NoConn, 0), <<>>)

----------------------------------------------------------------------------
\* startCheckingConnection, stopCheckingConnection and the looper.
\* A call of startCheckingConnection: pc ("await": line 252; "returned";
\* "threw"), task (the checkConnection call it awaits), periodMs (0 when
\* the argument is undefined). A looper (TaskLooper with the function of lines
\* 257-264): isStarted, periodInMs, firstCheck (the variable of line 256),
\* pc ("timer": waiting for the period to elapse; "task": awaiting line
\* 262), task, fired (the firings so far).

DEFAULT_CHECK_CONNECTION_PERIOD == 10000

Periods == {0, 50}

NewLooper(periodMs) ==
  [isStarted |-> TRUE, periodInMs |-> periodMs, firstCheck |-> TRUE,
   pc |-> "timer", task |-> 0, fired |-> 0]

\* lines 258-261 without the test of firstCheck
FiringChecks_Always(l) == TRUE

\* lines 258-261: the firing goes on to line 262
FiringChecks(l) == ~l.firstCheck

\* lines 253-266 without the test of line 254
StartContinue_NoLooperTest(p, s) ==
  LET periodMs == IF p.starts[s].periodMs = 0 THEN DEFAULT_CHECK_CONNECTION_PERIOD
                  ELSE p.starts[s].periodMs
  IN  [p EXCEPT !.loopers = Append(@, NewLooper(periodMs)),
                !.checkLooper = Len(p.loopers) + 1,
                !.starts[s].pc = "returned"]

\* startCheckingConnection, lines 253-266
StartContinue(p, s) ==
  LET periodMs == IF p.starts[s].periodMs = 0 THEN DEFAULT_CHECK_CONNECTION_PERIOD
                  ELSE p.starts[s].periodMs
  IN  IF p.checkLooper # NoLooper
      THEN [p EXCEPT !.starts[s].pc = "returned"]
      ELSE [p EXCEPT !.loopers = Append(@, NewLooper(periodMs)),
                     !.checkLooper = Len(p.loopers) + 1,
                     !.starts[s].pc = "returned"]

\* stopCheckingConnection without the call of stop() of line 275
StopCheckingConnectionOp_NoStop(p) == [p EXCEPT !.checkLooper = NoLooper]

\* stopCheckingConnection
StopCheckingConnectionOp(p) ==
  IF p.checkLooper # NoLooper
  THEN [p EXCEPT !.loopers[p.checkLooper].isStarted = FALSE,
                 !.checkLooper = NoLooper]
  ELSE p

\* What the end of call t resumes: line 252 of a startCheckingConnection call,
\* which throws what checkConnection threw, or line 262 of a looper, which
\* catches it (line 263) and waits for its period to elapse.
Resume(p, t, r) ==
  LET starting == {s \in StartIds : p.starts[s].pc = "await" /\ p.starts[s].task = t}
      looping == {l \in 1..Len(p.loopers) :
                    p.loopers[l].pc = "task" /\ p.loopers[l].task = t}
  IN  IF r.task.pc # "idle" THEN p
      ELSE IF starting # {}
      THEN LET s == CHOOSE x \in starting : TRUE
           IN  IF r.end.threw = "none" THEN StartContinue(p, s)
               ELSE [p EXCEPT !.starts[s].pc = "threw"]
      ELSE IF looping # {}
      THEN LET l == CHOOSE x \in looping : TRUE
           IN  [p EXCEPT !.loopers[l].pc = "timer", !.loopers[l].task = 0]
      ELSE p

\* The step of call t: `done` is what completed in it (the outcome of a check,
\* or <<connection, outcome>> of a probe), <<>> when the step is a call
ApplyOwned(t, op, done, r, p) ==
  /\ heap' = r.heap
  /\ connections' = r.connections
  /\ current' = r.current
  /\ tasks' = [tasks EXCEPT ![t] = r.task]
  /\ stragglers' = r.stragglers
  /\ periodic' = Resume(p, t, r)
  /\ last' = [op |-> op, task |-> t, done |-> done, end |-> r.end, notes |-> r.notes]
  /\ UNCHANGED <<listeners, autoSwitch, wallet>>

Apply(t, op, done, r) == ApplyOwned(t, op, done, r, periodic)

\* checkConnection up to its first await
CheckConnectionBegin ==
  LET tk == NewTask("checkConnection", current, heap, autoSwitch)
  IN  IF current # NoConn
      THEN Step(heap, connections, current, tk, stragglers, NoEnd, <<>>)
      ELSE Line207(heap, connections, current, autoSwitch, tk, stragglers)

\* checkConnection() is called and runs to its first await
CheckConnectionCall(t) ==
  /\ tasks[t].pc = "idle"
  /\ Apply(t, "checkConnection", <<>>, CheckConnectionBegin)

\* startCheckingConnection(periodMs) is called and runs to line 252
StartCheckingConnection(s, t, periodMs) ==
  /\ periodic.starts[s].pc # "await"
  /\ tasks[t].pc = "idle"
  /\ Len(periodic.loopers)
       + Cardinality({x \in StartIds : periodic.starts[x].pc = "await"}) < MaxLoopers
  /\ ApplyOwned(t, "startCheckingConnection", <<s>>, CheckConnectionBegin,
                [periodic EXCEPT !.starts[s] =
                   [pc |-> "await", task |-> t, periodMs |-> periodMs]])

\* stopCheckingConnection()
StopCheckingConnection ==
  /\ periodic' = StopCheckingConnectionOp(periodic)
  /\ last' = [op |-> "stopCheckingConnection", task |-> 0, done |-> <<>>,
              end |-> NoEnd, notes |-> <<>>]
  /\ UNCHANGED <<heap, connections, current, listeners, autoSwitch, tasks, stragglers,
               wallet>>

\* the period of looper l has elapsed and it runs its function (lines 257-264);
\* a looper that was stopped does not run it again
Fire(l, t) ==
  /\ l \in 1..Len(periodic.loopers)
  /\ periodic.loopers[l].isStarted
  /\ periodic.loopers[l].pc = "timer"
  /\ periodic.loopers[l].fired < MaxFirings
  /\ IF FiringChecks(periodic.loopers[l])
     THEN /\ tasks[t].pc = "idle"
          /\ ApplyOwned(t, "fire", <<l>>, CheckConnectionBegin,
                        [periodic EXCEPT !.loopers[l].pc = "task",
                                         !.loopers[l].task = t,
                                         !.loopers[l].fired = @ + 1])
     ELSE /\ periodic' = [periodic EXCEPT !.loopers[l].firstCheck = FALSE,
                                          !.loopers[l].fired = @ + 1]
          /\ last' = [op |-> "fire", task |-> 0, done |-> <<l>>,
                      end |-> NoEnd, notes |-> <<>>]
          /\ UNCHANGED <<heap, connections, current, listeners, autoSwitch,
                         tasks, stragglers, wallet>>

\* line 206 without the test of what the health check returned
CheckDone_AlwaysNotifies(t, outcome) ==
  /\ tasks[t].pc = "check"
  /\ LET tk == tasks[t]
         h1 == ApplyCheck(heap, tk.conn, outcome)
         tk1 == [tk EXCEPT !.wentOffline = tk.wasOnline /\ h1[tk.conn].isOnline = F]
     IN  Apply(t, "checkDone", <<outcome>>,
           IF outcome = "error"
           THEN Step(heap, connections, current, Idle, stragglers,
                     EndOf(tk, "CheckError", NoConn, 0), <<>>)
           ELSE Step(h1, connections, current,
                     [tk1 EXCEPT !.pc = "notify", !.heard = Len(listeners) > 0],
                     stragglers, NoEnd, <<tk.conn>>))

\* line 206: the health check of the current connection completes
CheckDone(t, outcome) ==
  /\ tasks[t].pc = "check"
  /\ LET tk == tasks[t]
         h1 == ApplyCheck(heap, tk.conn, outcome)
         tk1 == [tk EXCEPT !.wentOffline = tk.wasOnline /\ h1[tk.conn].isOnline = F]
     IN  Apply(t, "checkDone", <<outcome>>,
           IF outcome = "error"
           THEN Step(heap, connections, current, Idle, stragglers,
                     EndOf(tk, "CheckError", NoConn, 0), <<>>)
           ELSE IF CheckChanged(heap, tk.conn, outcome)
           THEN Step(h1, connections, current,
                     [tk1 EXCEPT !.pc = "notify", !.heard = Len(listeners) > 0],
                     stragglers, NoEnd, <<tk.conn>>)
           ELSE Line207(h1, connections, current, autoSwitch, tk1, stragglers))

\* line 206: the promise of _onConnectionChanged settles; it rejects when a
\* listener's handler fails, and the await throws
NotifyDone(t, ok) ==
  /\ tasks[t].pc = "notify"
  /\ ok \/ tasks[t].heard
  /\ Apply(t, "notifyDone", <<ok>>,
       IF ok
       THEN Line207(heap, connections, current, autoSwitch, tasks[t], stragglers)
       ELSE Step(heap, connections, current, Idle, stragglers,
                 EndOf(tasks[t], "ListenerError", NoConn, 0), <<>>))

\* getBestAvailableConnection(excludedConnections) is called by a client
GetBestCall(t, excluded) ==
  /\ tasks[t].pc = "idle"
  /\ Apply(t, "getBestAvailableConnection", <<>>,
       BestBegin(heap, connections, current,
                 NewTask("getBest", NoConn, heap, autoSwitch), stragglers, excluded))

\* checkConnections() is called: one check per connection, all awaited
CheckConnectionsCall(t) ==
  /\ tasks[t].pc = "idle"
  /\ LET tk == NewTask("checkConnections", NoConn, heap, autoSwitch)
     IN  Apply(t, "checkConnections", <<>>,
           IF connections = <<>>
           THEN Step(heap, connections, current, Idle, stragglers,
                     EndOf(tk, "none", NoConn, 0), <<>>)
           ELSE Step(heap, connections, current,
                     [tk EXCEPT !.pc = "probe", !.pending = Range(connections)],
                     stragglers, NoEnd, <<>>))

\* the check of one probed connection completes
ProbeDone(t, id, outcome) ==
  /\ tasks[t].pc = "probe"
  /\ id \in tasks[t].pending
  /\ LET tk == tasks[t]
         h1 == ApplyCheck(heap, id, outcome)
         rest == tk.pending \ {id}
         healthy == outcome # "error" /\ Healthy(h1, id)
         tk1 == [tk EXCEPT !.pending = rest,
                           !.rejected = IF tk.kind = "checkConnections" \/ healthy
                                        THEN @ ELSE @ \cup {id}]
     IN  Apply(t, "probeDone", <<id, outcome>>,
           IF tk.kind = "checkConnections"
           THEN \* line 236: `this` is not the manager inside the pool's
                \* function, so no listener is notified; errors are ignored
                IF rest = {}
                THEN Step(h1, connections, current, Idle, stragglers,
                          EndOf(tk, "none", NoConn, 0), <<>>)
                ELSE Step(h1, connections, current, tk1, stragglers, NoEnd, <<>>)
           ELSE IF healthy
           THEN \* line 129 resolves, Promise.any settles, the rest run on
                BestReturn(h1, connections, current, tk1, stragglers \cup rest, id)
           ELSE IF rest # {}
           THEN Step(h1, connections, current, tk1, stragglers, NoEnd, <<>>)
           ELSE BestFrom(h1, connections, current, tk1, stragglers, tk.k + 1))

\* a probe that no call awaits completes
StragglerDone(id, outcome) ==
  /\ id \in stragglers
  /\ heap' = ApplyCheck(heap, id, outcome)
  /\ stragglers' = stragglers \ {id}
  /\ last' = [op |-> "stragglerDone", task |-> 0, done |-> <<id, outcome>>,
              end |-> NoEnd, notes |-> <<>>]
  /\ UNCHANGED <<connections, current, listeners, autoSwitch, tasks, periodic, wallet>>

----------------------------------------------------------------------------
\* getConnections: a copy of _connections sorted with _compareConnections

\* _compareConnections with the priorities subtracted the other way round
CompareConnections_Descending(h, cur, c1, c2) ==
  IF c1 = cur THEN -1
  ELSE IF c2 = cur THEN 1
  ELSE IF h[c1].isOnline = h[c2].isOnline
  THEN IF h[c1].priority = h[c2].priority
       THEN LocaleCompare(h[c1].uri, h[c2].uri)
       ELSE IF h[c1].priority = 0 THEN 1
       ELSE IF h[c2].priority = 0 THEN -1
       ELSE h[c2].priority - h[c1].priority
  ELSE IF h[c1].isOnline = T THEN -1
  ELSE IF h[c2].isOnline = T THEN 1
  ELSE IF h[c1].isOnline = U THEN -1
  ELSE 1

\* _compareConnections whose lines 361-362 put an offline connection first
CompareConnections_OfflineBeforeUnknown(h, cur, c1, c2) ==
  IF c1 = cur THEN -1
  ELSE IF c2 = cur THEN 1
  ELSE IF h[c1].isOnline = h[c2].isOnline
  THEN IF h[c1].priority = h[c2].priority
       THEN LocaleCompare(h[c1].uri, h[c2].uri)
       ELSE IF h[c1].priority = 0 THEN 1
       ELSE IF h[c2].priority = 0 THEN -1
       ELSE h[c1].priority - h[c2].priority
  ELSE IF h[c1].isOnline = T THEN -1
  ELSE IF h[c2].isOnline = T THEN 1
  ELSE IF h[c1].isOnline = U THEN 1
  ELSE -1

\* _compareConnections whose line 356 takes two connections of one priority
\* for equal
CompareConnections_NoUriTieBreak(h, cur, c1, c2) ==
  IF c1 = cur THEN -1
  ELSE IF c2 = cur THEN 1
  ELSE IF h[c1].isOnline = h[c2].isOnline
  THEN IF h[c1].priority = h[c2].priority
       THEN 0
       ELSE IF h[c1].priority = 0 THEN 1
       ELSE IF h[c2].priority = 0 THEN -1
       ELSE h[c1].priority - h[c2].priority
  ELSE IF h[c1].isOnline = T THEN -1
  ELSE IF h[c2].isOnline = T THEN 1
  ELSE IF h[c1].isOnline = U THEN -1
  ELSE 1

\* _compareConnections
CompareConnections(h, cur, c1, c2) ==
  IF c1 = cur THEN -1
  ELSE IF c2 = cur THEN 1
  ELSE IF h[c1].isOnline = h[c2].isOnline
  THEN IF h[c1].priority = h[c2].priority
       THEN LocaleCompare(h[c1].uri, h[c2].uri)
       ELSE IF h[c1].priority = 0 THEN 1
       ELSE IF h[c2].priority = 0 THEN -1
       ELSE h[c1].priority - h[c2].priority
  ELSE IF h[c1].isOnline = T THEN -1
  ELSE IF h[c2].isOnline = T THEN 1
  ELSE IF h[c1].isOnline = U THEN -1
  ELSE 1

\* Array.prototype.sort on a short array: insertion sort, stable
RECURSIVE Insert(_, _, _, _)
Insert(h, cur, sorted, c) ==
  IF sorted = <<>> THEN <<c>>
  ELSE IF CompareConnections(h, cur, sorted[Len(sorted)], c) > 0
  THEN Append(Insert(h, cur, SubSeq(sorted, 1, Len(sorted) - 1), c),
              sorted[Len(sorted)])
  ELSE Append(sorted, c)

RECURSIVE SortConnections(_, _, _)
SortConnections(h, cur, cs) ==
  IF cs = <<>> THEN <<>>
  ELSE Insert(h, cur, SortConnections(h, cur, SubSeq(cs, 1, Len(cs) - 1)), cs[Len(cs)])

GetConnectionsOp(h, cs, cur) == SortConnections(h, cur, cs)

\* getConnections()
GetConnections ==
  /\ last' = [op |-> "getConnections",
              result |-> GetConnectionsOp(heap, connections, current)]
  /\ UNCHANGED <<heap, connections, current, listeners, autoSwitch, tasks, stragglers,
               periodic, wallet>>

\* The ranking of a registry: any registry that adding connections, checking
\* them and selecting one can produce
Priorities == {0, 1, 2}

Checked(uri, priority, online) ==
  [RpcConnection(uri, "", "", priority) EXCEPT
     !.isOnline = online,
     !.isAuthenticated = IF online = T THEN T ELSE U]

InitRank ==
  /\ \E n \in 0..MaxRank :
       /\ heap \in [1..n -> {Checked(u, p, o) : u \in Uris, p \in Priorities, o \in {T, F, U}}]
       /\ connections = [i \in 1..n |-> i]
       /\ current \in 0..n
  /\ \A i, j \in 1..Len(heap) : i # j => heap[i].uri # heap[j].uri
  /\ listeners = <<>>
  /\ autoSwitch = FALSE
  /\ tasks = [t \in 1..MaxTasks |-> Idle]
  /\ stragglers = {}
  /\ periodic = NoPeriodic
  /\ wallet = NoWallet
  /\ last = [op |-> "constructor"]

SpecRank == InitRank /\ [][GetConnections]_vars

----------------------------------------------------------------------------
\* The prober on its own: a registry whose connections have been added and
\* some of them checked, and clients calling getBestAvailableConnection

MaxProbe == 3       \* connections of a registry that is probed

ProbeUris == <<"a", "b", "c", "d">>

InitProbe ==
  /\ \E n \in 0..MaxProbe :
       \E ps \in [1..n -> Priorities], os \in [1..n -> {T, U}] :
         /\ heap = [i \in 1..n |-> Checked(ProbeUris[i], ps[i], os[i])]
         /\ connections = [i \in 1..n |-> i]
  /\ current = NoConn
  /\ listeners = <<>>
  /\ autoSwitch = FALSE
  /\ tasks = [t \in 1..MaxTasks |-> Idle]
  /\ stragglers = {}
  /\ periodic = NoPeriodic
  /\ wallet = NoWallet
  /\ last = [op |-> "constructor"]

NextProbe ==
  \/ \E t \in TaskIds, x \in SUBSET Range(connections) : GetBestCall(t, x)
  \/ \E t \in TaskIds, id \in Range(connections), o \in CheckOutcomes : ProbeDone(t, id, o)
  \/ \E id \in Range(connections), o \in CheckOutcomes : StragglerDone(id, o)

SpecProbe == InitProbe /\ [][NextProbe]_vars

----------------------------------------------------------------------------
\* The periodic checker: a manager with one registered connection, clients
\* that start and stop the periodic checks, and the cycles these calls run

MaxPeriodicTasks == 2   \* checkConnection calls in flight at once

InitPeriodic ==
  /\ heap = <<RpcConnection("a", "", "", 1)>>
  /\ connections = <<1>>
  /\ current \in {NoConn, 1}
  /\ listeners \in {<<>>, <<1>>}
  /\ autoSwitch \in BOOLEAN
  /\ tasks = [t \in 1..MaxPeriodicTasks |-> Idle]
  /\ stragglers = {}
  /\ periodic = NoPeriodic
  /\ wallet = NoWallet
  /\ last = [op |-> "constructor"]

\* the calls in flight take the first free places
FreeTask == Min({t \in DOMAIN tasks : tasks[t].pc = "idle"} \cup {Len(tasks) + 1})
FreeStart == Min({s \in StartIds : periodic.starts[s].pc # "await"} \cup {MaxStarts + 1})

NextPeriodic ==
  \/ \E ms \in Periods :
        /\ FreeStart \in StartIds /\ FreeTask \in DOMAIN tasks
        /\ StartCheckingConnection(FreeStart, FreeTask, ms)
  \/ StopCheckingConnection
  \/ \E l \in 1..MaxLoopers, t \in DOMAIN tasks :
        /\ t = Min({FreeTask, Len(tasks)})
        /\ Fire(l, t)
  \/ \E t \in DOMAIN tasks, o \in CheckOutcomes : CheckDone(t, o)
  \/ \E t \in DOMAIN tasks, ok \in BOOLEAN : NotifyDone(t, ok)

SpecPeriodic == InitPeriodic /\ [][NextPeriodic]_vars

----------------------------------------------------------------------------
\* The dispatch of a notification, _onConnectionChanged. Here a listener is
\* an object with the handler its client gave it:
\*   name    which listener it is
\*   does    what onConnectionChanged does before it first suspends:
\*           "nothing"; "addListener" (registers a listener it constructs);
\*           "removeListener" (removes the listener named target); "throw" (a
\*           handler that is no async function throws); "reject" (the promise
\*           it returns is rejected)

MaxHandlers == 3    \* listeners registered when a dispatch begins

HandlerKinds == {"nothing", "addListener", "removeListener", "throw", "reject"}

Listener(name, does, target) == [name |-> name, does |-> does, target |-> target]

\* the listener a handler constructs and registers
AddedListener == Listener(0, "nothing", 0)

\* lines 329-333. The for-of loop reads this._listeners itself, one index
\* after the other, and each handler runs, up to its first suspension, inside
\* the push of line 331: what it does to this._listeners the loop sees. A
\* handler that throws ends the loop, and the async function's promise is
\* rejected; otherwise Promise.all is rejected iff one of the promises is.
RECURSIVE OnConnectionChanged(_, _, _, _)
OnConnectionChanged(ls, i, invoked, failed) ==
  IF i > Len(ls)
  THEN [listeners |-> ls, invoked |-> invoked,
        settled |-> IF failed THEN "rejected" ELSE "resolved"]
  ELSE
    LET l == ls[i]
        called == Append(invoked, l.name)
        named == {j \in 1..Len(ls) : ls[j].name = l.target}
    IN  CASE l.does = "throw" ->
               [listeners |-> ls, invoked |-> called, settled |-> "rejected"]
          [] l.does = "reject" -> OnConnectionChanged(ls, i + 1, called, TRUE)
          [] l.does = "addListener" ->
               OnConnectionChanged(Append(ls, AddedListener), i + 1, called, failed)
          [] l.does = "removeListener" ->
               IF named = {}
               THEN \* removeListener throws (line 36) inside an async handler
                    OnConnectionChanged(ls, i + 1, called, TRUE)
               ELSE OnConnectionChanged(RemoveFirst(ls, ls[Min(named)]), i + 1,
                                        called, failed)
          [] OTHER -> OnConnectionChanged(ls, i + 1, called, failed)

\* setConnection(uriOrConnection) or disconnect() that changes the current
\* connection, with the dispatch of line 173, 185 or 193
SetConnectionNotified(arg) ==
  LET r == SetConnectionOp(heap, connections, current, arg)
      d == OnConnectionChanged(listeners, 1, <<>>, FALSE)
  IN  /\ r.notes # <<>>
      /\ Len(r.connections) <= MaxConns
      /\ Len(d.listeners) <= MaxHandlers + 1
      /\ heap' = r.heap
      /\ connections' = r.connections
      /\ current' = r.current
      /\ listeners' = d.listeners
      /\ last' = [op |-> "setConnection", threw |-> r.threw, notes |-> r.notes,
                  before |-> listeners, invoked |-> d.invoked, settled |-> d.settled]
      /\ UNCHANGED <<autoSwitch, tasks, stragglers, periodic, wallet>>

\* the listeners clients have registered
InitNotify ==
  /\ heap = <<>>
  /\ connections = <<>>
  /\ current = NoConn
  /\ \E n \in 0..MaxHandlers :
       \E does \in [1..n -> HandlerKinds], target \in [1..n -> 1..n] :
         /\ \A i \in 1..n : does[i] # "removeListener" => target[i] = 1
         /\ listeners = [i \in 1..n |-> Listener(i, does[i], target[i])]
  /\ autoSwitch = FALSE
  /\ tasks = [t \in 1..MaxTasks |-> Idle]
  /\ stragglers = {}
  /\ periodic = NoPeriodic
  /\ wallet = NoWallet
  /\ last = [op |-> "constructor"]

NextNotify ==
  \E a \in {[kind |-> "string", uri |-> u] : u \in {"a", "b"}} \cup {[kind |-> "undefined"]} :
    SetConnectionNotified(a)

SpecNotify == InitNotify /\ [][NextNotify]_vars

----------------------------------------------------------------------------
\* The manager under all its calls, interleaved

MainUris == {"a", "b"}
MainArgs == ConnArgs(MainUris, {""}, {""}, {0, 1})

Next ==
  \/ \E l \in ListenerIds : AddListener(l) /\ last' = LogCall
  \/ \E l \in ListenerIds : RemoveListener(l) /\ last' = LogCall
  \/ \E c \in MainArgs : AddConnection(c) /\ last' = LogCall
  \/ \E u \in MainUris : RemoveConnection(u) /\ last' = LogCall
  \/ \E a \in SetArgs(MainArgs, MainUris) : SetConnection(a) /\ last' = LogCall
  \/ Disconnect /\ last' = LogCall
  \/ \E b \in BOOLEAN : SetAutoSwitch(b) /\ last' = LogCall
  \/ \E t \in TaskIds : CheckConnectionCall(t)
  \/ \E t \in TaskIds, o \in CheckOutcomes : CheckDone(t, o)
  \/ \E t \in TaskIds, ok \in BOOLEAN : NotifyDone(t, ok)
  \/ \E t \in TaskIds, x \in SUBSET Range(connections) : GetBestCall(t, x)
  \/ \E t \in TaskIds : CheckConnectionsCall(t)
  \/ \E t \in TaskIds, id \in Range(connections), o \in CheckOutcomes : ProbeDone(t, id, o)
  \/ \E id \in Range(connections), o \in CheckOutcomes : StragglerDone(id, o)

Spec == Init /\ [][Next]_vars

----------------------------------------------------------------------------
\* The wallet on its own: a MoneroWalletRpc constructed on a server that has
\* some wallet files and may have one of them open

InitWallet ==
  /\ \E fs \in SUBSET WalletNames, o \in {NoName} \cup WalletNames :
       /\ o # NoName => o \in fs
       /\ wallet = [NoWallet EXCEPT !.server.files = fs, !.server.open = o]
  /\ heap = <<>>
  /\ connections = <<>>
  /\ current = NoConn
  /\ listeners = <<>>
  /\ autoSwitch = FALSE
  /\ tasks = [t \in 1..MaxTasks |-> Idle]
  /\ stragglers = {}
  /\ periodic = NoPeriodic
  /\ last = [op |-> "constructor"]

SubaddressIndices == 0..(MaxSubaddresses - 1)

NextWallet ==
  \/ \E name \in {NoName} \cup WalletNames, password \in WalletPasswords, ok \in BOOLEAN :
       OpenWallet(name, password, ok)
  \/ \E name \in {NoName} \cup WalletNames, password \in WalletPasswords, ok \in BOOLEAN :
       CreateWalletRandom(name, password, ok)
  \/ \E name \in {NoName} \cup WalletNames, ok \in BOOLEAN :
       CreateWalletFromMnemonic(name, ok)
  \/ \E ok \in BOOLEAN : Stop(ok)
  \/ \E save, ok \in BOOLEAN : Close(save, ok)
  \/ \E a \in Accounts, is \in SUBSET SubaddressIndices, skip, ok1, ok2 \in BOOLEAN :
       GetSubaddresses(a, is, skip, ok1, ok2)
  \/ \E a \in Accounts, i \in SubaddressIndices, ok1, ok2 \in BOOLEAN :
       GetAddress(a, i, ok1, ok2)
  \/ \E a \in Accounts, ok \in BOOLEAN : CreateSubaddress(a, ok)

SpecWallet == InitWallet /\ [][NextWallet]_vars

----------------------------------------------------------------------------
\* Properties of the registry

Credentials(h, id) == <<h[id].username, h[id].password>>

\* C1: removeConnection(uri) of a registered URI removes that connection and
\* no other, clears the current connection exactly when the removed one was
\* current, and notifies no listener.
C1_RemoveConnectionRemoves ==
  [][(/\ last'.op = "removeConnection"
      /\ GetConnectionByUri(heap, connections, last'.uri) # NoConn)
     => LET removed == GetConnectionByUri(heap, connections, last'.uri)
        IN  /\ GetConnectionByUri(heap', connections', last'.uri) = NoConn
            /\ Range(connections') = Range(connections) \ {removed}
            /\ current' = (IF current = removed THEN NoConn ELSE current)
            /\ last'.notes = <<>>]_vars

\* C10: addConnection of a connection whose URI is already registered throws
\* and leaves the registry, the current connection and the listeners as they
\* were.
C10_AddDuplicateFails ==
  [][(/\ last'.op = "addConnection"
      /\ GetConnectionByUri(heap, connections, last'.c.obj.uri) # NoConn)
     => /\ last'.threw = "MoneroError"
        /\ UNCHANGED <<heap, connections, current, listeners>>]_vars

C10_Witness ==
  /\ last.op = "addConnection"
  /\ last.threw = "MoneroError"
  /\ current # NoConn
  /\ listeners # <<>>

\* The current connection or its credentials differ across a step
CurrentDiffers ==
  \/ current' # current
  \/ current' # NoConn /\ Credentials(heap', current') # Credentials(heap, current)

\* C5: setConnection with a URI, a connection or undefined (disconnect)
\* notifies the listeners exactly once if the current connection or its
\* credentials differ from before the call and not at all otherwise; the second
\* of two consecutive setConnection calls with the same URI notifies nobody.
C5_NotifiesOncePerChange ==
  [][/\ (/\ last'.op \in {"setConnection", "disconnect"}
         /\ last'.kind \in {"string", "conn", "undefined"})
        => Len(last'.notes) = (IF CurrentDiffers THEN 1 ELSE 0)
     /\ (/\ last.op = "setConnection" /\ last'.op = "setConnection"
         /\ last.kind = "string" /\ last'.kind = "string"
         /\ last'.arg = last.arg)
        => /\ last'.notes = <<>>
           /\ Len(last.notes) + Len(last'.notes) <= 1]_vars

\* the second of two setConnection calls with one URI, the first of which
\* made the connection current
C5_Witness ==
  /\ last.op = "setConnection"
  /\ last.kind = "string"
  /\ last.notes = <<>>
  /\ current # NoConn
  /\ heap[current].uri = last.arg.uri

\* C6: setConnection with a MoneroRpcConnection registers it and makes it
\* current if its URI is not registered; otherwise the registered connection
\* holds the supplied username and password afterwards and is current.
C6_ConnectionOverwritesCredentials ==
  [][(last'.op = "setConnection" /\ last'.kind = "conn")
     => LET c == last'.arg.c
            prevConnection == GetConnectionByUri(heap, connections, c.obj.uri)
        IN  IF prevConnection = NoConn
            THEN /\ connections' = Append(connections, c.id)
                 /\ heap'[c.id] = c.obj
                 /\ current' = c.id
            ELSE /\ heap'[prevConnection].username = c.obj.username
                 /\ heap'[prevConnection].password = c.obj.password
                 /\ current' = prevConnection]_vars

\* C7: setConnection with a URI makes the registered connection with that URI
\* current and leaves its username and password alone; if there is none,
\* exactly one new connection with that URI and empty credentials is created,
\* registered and made current.
C7_UriSelectsOrCreates ==
  [][(last'.op = "setConnection" /\ last'.kind = "string")
     => LET uri == last'.arg.uri
            prevConnection == GetConnectionByUri(heap, connections, uri)
        IN  IF prevConnection # NoConn
            THEN /\ current' = prevConnection
                 /\ connections' = connections
                 /\ Len(heap') = Len(heap)
                 /\ Credentials(heap', prevConnection) = Credentials(heap, prevConnection)
            ELSE /\ Len(heap') = Len(heap) + 1
                 /\ connections' = Append(connections, Len(heap'))
                 /\ heap'[Len(heap')].uri = uri
                 /\ Credentials(heap', Len(heap')) = <<"", "">>
                 /\ current' = Len(heap')
                 /\ \A id \in 1..Len(heap) : heap'[id] = heap[id]]_vars

\* a URI has selected a registered connection that has credentials
C7_Witness ==
  /\ last.op = "setConnection"
  /\ last.kind = "string"
  /\ last.notes = <<current>>
  /\ current # NoConn
  /\ Credentials(heap, current) = <<"u", "p">>
  /\ Len(connections) > 1

\* C21: setConnection with an argument that is no string, no
\* MoneroRpcConnection and not undefined throws, leaves the registry and
\* the current connection as they were and notifies no listener.
C21_InvalidArgumentThrows ==
  [][(last'.op = "setConnection" /\ last'.kind \in {"falsy", "object"})
     => /\ last'.threw = "MoneroError"
        /\ last'.notes = <<>>
        /\ UNCHANGED <<heap, connections, current>>]_vars

----------------------------------------------------------------------------
\* Properties of the ranking

\* the priorities <<p, q>> of two connections of the result that are not
\* current and share an online status, the one with p before the one with q
RankedPriorities ==
  LET r == last.result
  IN  {<<heap[r[ij[1]]].priority, heap[r[ij[2]]].priority>> :
         ij \in {x \in (1..Len(r)) \X (1..Len(r)) :
                   /\ x[1] < x[2]
                   /\ r[x[1]] # current /\ r[x[2]] # current
                   /\ heap[r[x[1]]].isOnline = heap[r[x[2]]].isOnline}}

\* A (priority 1), B (priority 2) and C (priority 0), all online, none current
IsExample ==
  /\ current = NoConn
  /\ {<<heap[id].uri, heap[id].priority, heap[id].isOnline>> : id \in Range(connections)}
       = {<<"a", 1, T>>, <<"b", 2, T>>, <<"c", 0, T>>}
  /\ Len(connections) = 3

ResultUris == [i \in 1..Len(last.result) |-> heap[last.result[i]].uri]

\* C3, as claimed: descending positive priority, priority 0 last; [B, A, C]
C3_DescendingPriority ==
  last.op = "getConnections"
  => /\ \A pq \in RankedPriorities :
          /\ pq[1] = 0 => pq[2] = 0
          /\ (pq[1] > 0 /\ pq[2] > 0) => pq[1] >= pq[2]
     /\ IsExample => ResultUris = <<"b", "a", "c">>

\* C3, amended: among the connections that are not current and share an
\* online status, the positive priorities ascend (priority 1 precedes
\* priority 2) and every priority 0 comes after every positive priority;
\* the example yields [A, B, C].
C3_AscendingPriority ==
  last.op = "getConnections"
  => /\ \A pq \in RankedPriorities :
          /\ pq[1] = 0 => pq[2] = 0
          /\ (pq[1] > 0 /\ pq[2] > 0) => pq[1] <= pq[2]
     /\ IsExample => ResultUris = <<"a", "b", "c">>

C3_Witness ==
  /\ last.op = "getConnections"
  /\ IsExample
  /\ [i \in 1..3 |-> heap[connections[i]].uri] = <<"c", "b", "a">>

\* the online statuses <<x, y>> of two connections of the result that are
\* not current, the one with x before the one with y
RankedStatuses ==
  LET r == last.result
  IN  {<<heap[r[ij[1]]].isOnline, heap[r[ij[2]]].isOnline>> :
         ij \in {x \in (1..Len(r)) \X (1..Len(r)) :
                   /\ x[1] < x[2]
                   /\ r[x[1]] # current /\ r[x[2]] # current}}

\* C19, as claimed: among the connections that are not current, online
\* before offline before unknown
C19_OnlineOfflineUnknown ==
  last.op = "getConnections"
  => RankedStatuses \subseteq {<<T, T>>, <<T, F>>, <<T, U>>, <<F, F>>, <<F, U>>, <<U, U>>}

\* C19, amended: among the connections that are not current, every online
\* connection precedes every connection that is not online, and every
\* connection whose online status is unknown precedes every offline one.
C19_OnlineUnknownOffline ==
  last.op = "getConnections"
  => RankedStatuses \subseteq {<<T, T>>, <<T, U>>, <<T, F>>, <<U, U>>, <<U, F>>, <<F, F>>}

\* an offline, an unknown and an online connection, registered in this
\* order and none of them current, have been ranked
C19_Witness ==
  /\ last.op = "getConnections"
  /\ current = NoConn
  /\ Len(connections) = 3
  /\ [i \in 1..3 |-> heap[connections[i]].isOnline] = <<F, U, T>>
  /\ [i \in 1..3 |-> heap[last.result[i]].isOnline] = <<T, U, F>>

----------------------------------------------------------------------------
\* Properties of the manager under interleaved calls

AsyncSteps == {"checkConnection", "checkDone", "notifyDone",
               "getBestAvailableConnection", "checkConnections", "probeDone"}

\* the step just taken ended a call of this kind
Ended(kind) == last.op \in AsyncSteps /\ last.end.kind = kind

\* C2: when every probe of a non-excluded connection with a positive
\* priority was rejected and a non-excluded priority-0 connection is online
\* and not unauthenticated, getBestAvailableConnection returns a priority-0
\* connection.
C2_PriorityZeroLastResort ==
  (Ended("getBest") \/ (Ended("checkConnection") /\ last.end.bestCalls = 1))
  => LET e == last.end
         candidates == Range(connections) \ e.excluded
     IN  (/\ \A id \in candidates : heap[id].priority > 0 => id \in e.rejected
          /\ \E id \in candidates : heap[id].priority = 0 /\ Healthy(heap, id))
         => /\ e.result # NoConn
            /\ heap[e.result].priority = 0

C8_CurrentIsRegistered == current = NoConn \/ current \in Range(connections)

\* an auto-switch has just made a connection current
C8_Witness ==
  /\ Ended("checkConnection")
  /\ last.end.setCalls = 1
  /\ current = last.end.result
  /\ current # last.end.conn

\* C9: no two registered connections have the same URI.
C9_UniqueUris ==
  \A i, j \in 1..Len(connections) :
    i # j => heap[connections[i]].uri # heap[connections[j]].uri

\* two connections are registered and a check cycle has switched between them
C9_Witness ==
  /\ Len(connections) = 2
  /\ Ended("checkConnection")
  /\ last.end.setCalls = 1
  /\ last.end.conn # NoConn

----------------------------------------------------------------------------
\* Properties of the prober

\* priority p ranks above priority q
Outranks(p, q) == p > 0 /\ (q = 0 \/ p < q)

\* the connections of tier k of a call, and of the tiers before it
TierConns(tiers, k) ==
  {tiers[k][i].id : i \in {j \in 1..Len(tiers[k]) : tiers[k][j].tag = "conn"}}
  \cup UNION {{e.id : e \in Range(tiers[k][i].conns)} :
              i \in {j \in 1..Len(tiers[k]) : tiers[k][j].tag = "array"}}

SnapshotConns(tiers) == UNION {TierConns(tiers, k) : k \in 1..Len(tiers)}

\* the check that completed in the step found the connection online and not
\* unauthenticated
CompletedHealthy ==
  /\ last'.done[2] # "error"
  /\ heap'[last'.done[1]].isOnline = T
  /\ heap'[last'.done[1]].isAuthenticated # F

\* a probe of call t of getBestAvailableConnection has completed in the step
ProbeStep(t) ==
  /\ last'.op = "probeDone"
  /\ last'.task = t
  /\ tasks[t].kind = "getBest"

\* C11: getBestAvailableConnection returns a connection only when the probe
\* of every non-excluded connection of a higher-ranked tier (smaller positive
\* priority; 0 ranks below every positive priority) has completed without
\* finding it online and not unauthenticated, and it goes on to the next
\* tier only when that holds of every non-excluded connection of the present
\* tier.
C11_TiersInRankOrder ==
  [][\A t \in DOMAIN tasks :
       ProbeStep(t) =>
         LET tk == tasks[t]
             e == last'.end
         IN  /\ (tasks'[t].pc = "probe" /\ tasks'[t].rejected # tk.rejected)
                  => /\ tasks'[t].rejected = tk.rejected \cup {last'.done[1]}
                     /\ ~CompletedHealthy
             /\ (e.kind = "getBest" /\ e.result # NoConn)
                  => \A id \in SnapshotConns(tk.tiers) \ tk.excluded :
                       Outranks(heap[id].priority, heap[e.result].priority)
                         => id \in tk.rejected
             /\ (tasks'[t].pc = "probe" /\ tasks'[t].k > tk.k)
                  => /\ TierConns(tk.tiers, tk.k) \ tk.excluded \subseteq tasks'[t].rejected
                     /\ ~CompletedHealthy]_vars

\* a connection of priority 2 is returned after the probe of a connection of
\* priority 1 was rejected
C11_Witness ==
  /\ last.op = "probeDone"
  /\ last.end.kind = "getBest"
  /\ last.end.result # NoConn
  /\ heap[last.end.result].priority = 2
  /\ \E id \in last.end.rejected : heap[id].priority = 1

C13_NoneWithoutError ==
  [][\A t \in DOMAIN tasks :
       /\ (last'.op = "getBestAvailableConnection" /\ last'.task = t)
            => /\ last'.end.kind = "getBest" => last'.end.threw = "none"
               /\ (\/ tasks'[t].pc = "idle" /\ Range(connections) \subseteq last'.end.excluded
                   \/ tasks'[t].pc # "idle" /\ Range(connections) \subseteq tasks'[t].excluded)
                    => /\ last'.end.kind = "getBest"
                       /\ last'.end.result = NoConn
       /\ ProbeStep(t)
            => LET tk == tasks[t]
                   e == last'.end
                   rest == tk.pending \ {last'.done[1]}
                   later == {k \in (tk.k + 1)..Len(tk.tiers) :
                               \E j \in 1..Len(tk.tiers[k]) :
                                 /\ tk.tiers[k][j].tag = "conn"
                                 /\ tk.tiers[k][j].id \notin tk.excluded}
               IN  /\ e.kind = "getBest" => e.threw = "none"
                   /\ (~CompletedHealthy /\ rest = {} /\ later = {})
                        => e.kind = "getBest" /\ e.result = NoConn
                   /\ (last'.done[2] = "error" /\ rest # {})
                        => tasks'[t].pc = "probe" /\ tasks'[t].pending = rest
                   /\ (last'.done[2] = "error" /\ rest = {} /\ later # {})
                        => /\ tasks'[t].pc = "probe"
                           /\ tasks'[t].k = Min(later)
                           /\ tasks'[t].pending
                                = TierConns(tk.tiers, Min(later)) \ tk.excluded]_vars

\* a call returns undefined after an error in one tier and a rejected probe
\* in another
C13_Witness ==
  /\ last.op = "probeDone"
  /\ last.end.kind = "getBest"
  /\ last.end.result = NoConn
  /\ last.end.threw = "none"
  /\ last.done[2] = "error"
  /\ \E id \in last.end.rejected : heap[id].priority # heap[last.done[1]].priority

\* a call whose probes are in flight and awaited at line 139
Probing(t) ==
  tasks[t].pc = "probe" /\ tasks[t].kind \in {"getBest", "checkConnection"}

\* C22: the probes in flight within one getBestAvailableConnection call all
\* belong to one tier, and the probe of every non-excluded connection of
\* each tier before it has settled without a healthy result.
C22_TiersStrictlySequential ==
  \A t \in DOMAIN tasks :
    Probing(t) =>
      LET tk == tasks[t]
      IN  /\ tk.k \in 1..Len(tk.tiers)
          /\ tk.pending # {}
          /\ tk.pending \subseteq TierConns(tk.tiers, tk.k)
          /\ \A j \in 1..(tk.k - 1) :
               /\ TierConns(tk.tiers, j) \cap tk.pending = {}
               /\ TierConns(tk.tiers, j) \ tk.excluded \subseteq tk.rejected

\* the probes of a second tier are in flight after two probes of the first
\* tier were rejected
C22_Witness ==
  \E t \in DOMAIN tasks :
    /\ Probing(t)
    /\ tasks[t].k = 2
    /\ Cardinality(tasks[t].rejected) = 2
    /\ last.op = "probeDone"

----------------------------------------------------------------------------
\* Properties of the periodic checker

Loopers == periodic.loopers

\* the loopers that were started and not stopped
Started(p) == {l \in 1..Len(p.loopers) : p.loopers[l].isStarted}

\* the step ends a checkConnection call that did not throw
CycleCompleted ==
  /\ last'.op \in {"startCheckingConnection", "fire", "checkDone", "notifyDone"}
  /\ last'.end.kind = "checkConnection"
  /\ last'.end.threw = "none"

\* C14: once stopCheckingConnection has returned, the looper it stopped never
\* runs its function again, so the only looper that starts a check cycle is
\* the one the manager holds; stopCheckingConnection called when the manager
\* holds no looper changes nothing and does not throw.
C14_NoCycleAfterStop ==
  [][/\ last'.op = "stopCheckingConnection"
          => /\ periodic'.checkLooper = NoLooper
             /\ Started(periodic') = {}
             /\ periodic.checkLooper = NoLooper => periodic' = periodic
             /\ UNCHANGED <<heap, connections, current, listeners, autoSwitch, tasks>>
     /\ last'.op = "fire"
          => /\ last'.done[1] = periodic.checkLooper
             /\ Loopers[last'.done[1]].isStarted
     /\ \A l \in 1..Len(Loopers) :
          ~Loopers[l].isStarted
            => /\ ~periodic'.loopers[l].isStarted
               /\ periodic'.loopers[l].fired = Loopers[l].fired
               /\ Loopers[l].pc = "timer" => periodic'.loopers[l] = Loopers[l]]_vars

\* a looper that has run a check cycle was stopped, a later start has
\* created another looper, and that one has fired
C14_Witness ==
  /\ last.op = "fire"
  /\ Len(Loopers) = 2
  /\ ~Loopers[1].isStarted
  /\ Loopers[1].fired = 2
  /\ last.done = <<2>>

\* C15: a startCheckingConnection call returns in the step that ends its one
\* checkConnection call, which did not throw; the first firing of the looper
\* calls nothing, and every later firing calls checkConnection exactly once.
C15_OneCycleThenSkipFirst ==
  [][/\ \A s \in StartIds :
          LET before == periodic.starts[s]
              after == periodic'.starts[s]
          IN  /\ (last'.op = "startCheckingConnection" /\ last'.done = <<s>>)
                   => /\ before.pc # "await"
                      /\ tasks[last'.task].pc = "idle"
                      /\ IF last'.end.kind = "none"
                         THEN /\ after.pc = "await"
                              /\ after.task = last'.task
                              /\ tasks'[last'.task].kind = "checkConnection"
                         ELSE after.pc = (IF CycleCompleted THEN "returned" ELSE "threw")
              /\ (before.pc = "await" /\ after.pc = "await")
                   => /\ after = before
                      /\ tasks'[before.task].pc # "idle"
              /\ (before.pc = "await" /\ after.pc = "returned")
                   => CycleCompleted /\ last'.task = before.task
     /\ last'.op = "fire"
          => LET l == last'.done[1]
             IN  IF Loopers[l].fired = 0
                 THEN last'.task = 0 /\ UNCHANGED <<heap, tasks, current>>
                 ELSE /\ last'.task \in DOMAIN tasks
                      /\ tasks[last'.task].pc = "idle"
                      /\ \A t \in DOMAIN tasks \ {last'.task} : tasks'[t] = tasks[t]
                      /\ IF last'.end.kind = "none"
                         THEN /\ tasks'[last'.task].kind = "checkConnection"
                              /\ periodic'.loopers[l].pc = "task"
                         ELSE last'.end.kind = "checkConnection"]_vars

\* the second firing of a looper has called checkConnection, after a start
\* that awaited its own check before it returned
C15_Witness ==
  /\ last.op = "fire"
  /\ last.task # 0
  /\ Loopers[last.done[1]].fired = 2
  /\ current # NoConn
  /\ heap[current].isOnline # U

\* C16: at most one looper is started at any time; a looper is created only
\* when the manager holds none, a startCheckingConnection call made or resumed
\* while the manager holds one creates none, and the period of a looper
\* never changes.
C16_AtMostOneLooper ==
  [][/\ Cardinality(Started(periodic')) <= 1
     /\ Started(periodic') \subseteq {periodic'.checkLooper}
     /\ \A l \in 1..Len(Loopers) :
          periodic'.loopers[l].periodInMs = Loopers[l].periodInMs
     /\ Len(periodic'.loopers) \in {Len(Loopers), Len(Loopers) + 1}
     /\ Len(periodic'.loopers) > Len(Loopers)
          => /\ periodic.checkLooper = NoLooper
             /\ Started(periodic) = {}
     /\ periodic.checkLooper # NoLooper
          => \/ periodic'.checkLooper = periodic.checkLooper
             \/ last'.op = "stopCheckingConnection"]_vars

\* two startCheckingConnection calls with different periods have returned
\* and there is one looper, with the period of one of them
C16_Witness ==
  /\ \A s \in StartIds : periodic.starts[s].pc = "returned"
  /\ periodic.starts[1].periodMs # periodic.starts[2].periodMs
  /\ Len(Loopers) = 1
  /\ Loopers[1].isStarted
  /\ Loopers[1].periodInMs = 50

----------------------------------------------------------------------------
\* Properties of the dispatch

Names(ls) == [i \in 1..Len(ls) |-> ls[i].name]

\* C17: a notification invokes the listeners that were registered when the
\* dispatch began, each once and in order: no listener a handler adds during
\* the dispatch, and every listener of the starting list whatever a handler
\* removes.
C17_DispatchOverSnapshot ==
  last.op = "setConnection" => last.invoked = Names(last.before)

\* C18: when the handler of a listener fails during the dispatch that
\* checkConnection awaits (line 206), checkConnection does not fail: it goes
\* on to line 207 and, with auto-switch enabled and the connection not
\* online or unauthenticated, calls getBestAvailableConnection.
C18_ListenerFailureNotFatal ==
  [][\A t \in DOMAIN tasks :
       (last'.op = "notifyDone" /\ last'.task = t /\ last'.done = <<FALSE>>)
         => LET conn == tasks[t].conn
                after == IF tasks'[t].pc = "idle" THEN last'.end ELSE tasks'[t]
            IN  /\ last'.end.kind = "checkConnection" => last'.end.threw = "none"
                /\ (autoSwitch /\ (heap[conn].isOnline # T \/ heap[conn].isAuthenticated = F))
                     => after.bestCalls = 1]_vars

C23_ExcludedNeverProbed ==
  /\ \A t \in DOMAIN tasks :
       Probing(t) => /\ tasks[t].pending \cap tasks[t].excluded = {}
                     /\ tasks[t].rejected \cap tasks[t].excluded = {}
  /\ (Ended("getBest") \/ Ended("checkConnection"))
       => /\ last.end.result # NoConn => last.end.result \notin last.end.excluded
          /\ last.end.rejected \cap last.end.excluded = {}
  /\ (Ended("checkConnection") /\ last.end.bestCalls = 1)
       => /\ last.end.excluded = {last.end.conn}
          /\ last.end.result # NoConn => last.end.result # last.end.conn

\* a call returns a connection while an excluded connection of the same
\* tier is online and authenticated
C23_Witness ==
  /\ Ended("getBest")
  /\ last.end.result # NoConn
  /\ \E id \in last.end.excluded :
       /\ heap[id].isOnline = T /\ heap[id].isAuthenticated = T
       /\ heap[id].priority = heap[last.end.result].priority

\* the online and authentication state of a connection
Health(h, id) == <<h[id].isOnline, h[id].isAuthenticated>>

C25_NotifiesWithCurrent ==
  [][last'.op \in AsyncSteps
       => \A i \in 1..Len(last'.notes) : last'.notes[i] = current']_vars

\* C26: a check cycle in flight whose checked connection is no longer the
\* current one leaves the current connection as it finds it.
C26_SwitchKeepsNewerSelection ==
  [][\A t \in DOMAIN tasks :
       (/\ last'.op \in {"checkDone", "notifyDone", "probeDone"}
        /\ last'.task = t
        /\ tasks[t].kind = "checkConnection"
        /\ current # tasks[t].conn)
         => current' = current]_vars

\* C27: when stopCheckingConnection has just been called during the initial
\* check cycle of a startCheckingConnection call and that call then
\* completes, no looper is started.
C27_StopDuringStartLeavesNoLooper ==
  [][(/\ last.op = "stopCheckingConnection"
      /\ \E s \in StartIds : /\ periodic.starts[s].pc = "await"
                             /\ periodic'.starts[s].pc = "returned")
       => Started(periodic') = {}]_vars

\* C28: when a check made by checkConnections completes, the listeners are
\* notified, with the current connection, exactly when the checked
\* connection is the current one and the check changed its health.
C28_CheckConnectionsNotifiesCurrent ==
  [][\A t \in DOMAIN tasks :
       (/\ last'.op = "probeDone"
        /\ last'.task = t
        /\ tasks[t].kind = "checkConnections")
         => LET id == last'.done[1]
            IN  last'.notes = IF id = current /\ Health(heap', id) # Health(heap, id)
                              THEN <<current>>
                              ELSE <<>>]_vars

\* c1 is before c2 for _compareConnections
Before(c1, c2) == CompareConnections(heap, current, c1, c2) < 0

\* the registered connections in another insertion order
Reordered(f) == [i \in 1..Len(connections) |-> connections[f[i]]]

\* C29: over the registered connections _compareConnections is
\* antisymmetric and transitive and never takes two of them for equal; the
\* list getConnections returns is the same for every insertion order of the
\* connections, has the current connection first, and has two connections of
\* one online status and one priority, neither of them current, in ascending
\* order of URI.
C29_OrderIndependentOfInsertion ==
  last.op = "getConnections"
  => LET cs == Range(connections)
         r == last.result
     IN  /\ \A c1, c2 \in cs : c1 # c2 => (Before(c1, c2) <=> ~Before(c2, c1))
         /\ \A c1, c2 \in cs : c1 # c2 => CompareConnections(heap, current, c1, c2) # 0
         /\ \A c1, c2, c3 \in cs : (Before(c1, c2) /\ Before(c2, c3)) => Before(c1, c3)
         /\ \A f \in Permutations(1..Len(connections)) :
              GetConnectionsOp(heap, Reordered(f), current) = r
         /\ current \in cs => r[1] = current
         /\ \A i, j \in 1..Len(r) :
              (/\ i < j
               /\ r[i] # current /\ r[j] # current
               /\ heap[r[i]].isOnline = heap[r[j]].isOnline
               /\ heap[r[i]].priority = heap[r[j]].priority)
                => LocaleCompare(heap[r[i]].uri, heap[r[j]].uri) < 0

\* three connections of one online status and one priority, registered in
\* descending order of URI with the last of them current, have been ranked
C29_Witness ==
  /\ last.op = "getConnections"
  /\ Len(connections) = 3
  /\ [i \in 1..3 |-> heap[connections[i]].uri] = <<"c", "b", "a">>
  /\ \A i \in 1..3 : heap[i].isOnline = U /\ heap[i].priority = 1
  /\ current = connections[3]
  /\ [i \in 1..3 |-> heap[last.result[i]].uri] = <<"a", "b", "c">>

----------------------------------------------------------------------------
\* Properties of the wallet's address cache

OpensOrCloses == {"openWallet", "createWalletRandom", "createWalletFromMnemonic",
                  "close", "stop"}

\* C30: every address in the cache is an address of the wallet the server has
\* open; the cache is empty when openWallet, createWalletRandom,
\* createWalletFromMnemonic, close or stop has completed without throwing; and
\* the address getAddress returns is an address of the open wallet.
C30_CacheOfOpenWalletOnly ==
  /\ \A a \in DOMAIN wallet.addressCache : \A i \in DOMAIN wallet.addressCache[a] :
       wallet.addressCache[a][i] = Address(wallet.server.open, a, i)
  /\ (last.op \in OpensOrCloses /\ last.threw = "none")
       => wallet.addressCache = EmptyMap
  /\ (last.op = "getAddress" /\ last.threw = "none" /\ last.result # NoAddress)
       => last.result = Address(wallet.server.open, last.args[1], last.args[2])

====
